---- MODULE Spec2Model ----
(***************************************************************************)
(* CountMeOut: the practice-session hook (usePracticeSession), the local   *)
(* Dexie store it writes to, and the timers it arms.                       *)
(*                                                                         *)
(* One hook instance is modelled.  Every handler is one action; a handler  *)
(* that calls setState is modelled together with the render it causes and  *)
(* the cleanup effect of the hook ([state.isComplete, intervalId]).        *)
(* saveResults is asynchronous: it is one action per await.                *)
(* Non-integer numbers (accuracy, averageTime) are kept as exact fractions *)
(* numerator / denominator.                                                *)
(***************************************************************************)
EXTENDS Integers, Sequences, FiniteSets, TLC

(* ------------------------------ bounds -------------------------------- *)
MaxSessionLength == 2     \* sessionLength argument ranges over 0..MaxSessionLength
MaxTimeLimit == 2         \* timeLimit argument ranges over 0..MaxTimeLimit
MaxTicks == 1             \* clock ticks modelled in a session without time limit
MaxRange == 1             \* customRange = {min: 1, max: MaxRange}
MaxTimers == 2            \* pending setTimeout(nextProblem) handles
MaxDictations == 1        \* pending setTimeout(speak) handles
MaxStarts == 2            \* startSession calls on the hook instance
MaxRecords == 2           \* saveResults calls made in a behaviour
MaxCalls == 2             \* saveResults calls in flight at the same time
MaxEvents == 4            \* calls the user interface makes on the hook in a behaviour
MaxSaves == 7             \* sessions the component completes and saves in a behaviour
MaxDays == 7              \* calendar days a behaviour runs over
MaxResets == 2            \* clearAllData calls and loads of the application in a behaviour
HookRange == 2            \* customRange = {min: 1, max: HookRange} of the sessions without saves
GenRangeSpan == 2         \* custom ranges given to the generator lie in -GenRangeSpan..GenRangeSpan

(* --------------------------- program constants ------------------------ *)
PointsPerCorrect == 10
Tolerance100 == 1         \* validateAnswer tolerance 0.01, in hundredths
NullTime == -1            \* timeRemaining: null
NullDate == 0             \* sessionStartTime / problemStartTime: null
Now == 1                  \* new Date()
NoInterval == 0           \* intervalId: null

Modes == {"timed", "accuracy", "audio"}
Operations == {"addition", "multiplication"}
Difficulties == {"beginner"}

(* ------------------------------ numbers ------------------------------- *)
Max(a, b) == IF a >= b THEN a ELSE b

Abs(a) == IF a >= 0 THEN a ELSE -a

NaN == [nan |-> TRUE, val |-> 0]

Num(v) == [nan |-> FALSE, val |-> v]

Numeral == <<"1", "2", "3", "4", "5", "6", "7", "8", "9">>

\* the texts the user can submit: the numerals up to the largest answer, and a
\* text that is not a number
Inputs == {Numeral[n] : n \in 1..(2 * MaxRange)} \cup {"abc"}

\* parseFloat(answer)
ParseFloat(text) ==
    IF \E n \in 1..Len(Numeral) : Numeral[n] = text
    THEN Num(CHOOSE n \in 1..Len(Numeral) : Numeral[n] = text)
    ELSE NaN

\* mathEngine.validateAnswer(userAnswer, correctAnswer): |u - c| <= 0.01
validateAnswer(userAnswer, correctAnswer) ==
    /\ ~userAnswer.nan
    /\ Abs(100 * userAnswer.val - 100 * correctAnswer) <= Tolerance100

(* --------------------------- problem generator ------------------------ *)
\* customRange: undefined
NoRange == [min |-> 0, max |-> -1]

\* the configurations of the session hook: addition and multiplication on the
\* custom range 1..MaxRange
Configs ==
    [operation : Operations, difficulty : Difficulties,
     customRange : {[min |-> 1, max |-> MaxRange]},
     includeNegatives : {FALSE}, multiStep : {FALSE}]

NoProblem == [operation |-> "none", factors |-> <<0, 0>>, answer |-> 0]

\* getRange: a custom range overrides the range of the difficulty
getRange(config) ==
    IF config.customRange # NoRange THEN config.customRange
    ELSE CASE config.difficulty = "beginner" -> [min |-> 1, max |-> 10]
           [] config.difficulty = "intermediate" -> [min |-> 1, max |-> 100]
           [] config.difficulty = "advanced" -> [min |-> 1, max |-> 1000]
           [] config.difficulty = "expert" -> [min |-> 1, max |-> 10000]
           [] OTHER -> [min |-> 1, max |-> 100]

\* randomInRange(min, max) = Math.floor(Math.random() * (max - min + 1)) + min
\* with Math.random() in [0, 1): any integer of min..max, and of max + 1..min
\* when max - min + 1 is not positive
randomInRange(min, max) == IF max >= min THEN min..max ELSE (max + 1)..min

\* Math.floor(a / b) for b # 0
FloorDiv(a, b) == IF b > 0 THEN a \div b ELSE (-a) \div (-b)

\* Math.floor(num / den) in the place of Math.round
RoundDown(num, den) == FloorDiv(num, den)

\* Math.round(num / den) for den > 0: halves go up
Round(num, den) == FloorDiv(2 * num + den, 2 * den)

\* A problem: expression is the sequence of the numbers and signs of the
\* string.  answerKind is "number" when answer is a finite number; otherwise it
\* names the value of answer ("-Infinity", "NaN"), the dividend of the problem
\* is NaN, and the fields answer and factors[1] hold 0 in their place.
Problem(operation, expression, answer, factors, isMultiStep, answerKind) ==
    [operation |-> operation, factors |-> factors, answer |-> answer,
     expression |-> expression, isMultiStep |-> isMultiStep,
     answerKind |-> answerKind]

generateAddition(config) ==
    {Problem("addition", <<a, "+", b>>, a + b, <<a, b>>, FALSE, "number") :
        a \in randomInRange(getRange(config).min, getRange(config).max),
        b \in randomInRange(getRange(config).min, getRange(config).max)}

\* a and b are swapped when negatives are off and b > a
generateSubtraction(config) ==
    {LET swap == ~config.includeNegatives /\ b0 > a0
         a == IF swap THEN b0 ELSE a0
         b == IF swap THEN a0 ELSE b0
     IN  Problem("subtraction", <<a, "-", b>>, a - b, <<a, b>>, FALSE, "number") :
        a0 \in randomInRange(getRange(config).min, getRange(config).max),
        b0 \in randomInRange(getRange(config).min, getRange(config).max)}

generateMultiplication(config) ==
    {Problem("multiplication", <<a, "*", b>>, a * b, <<a, b>>, FALSE, "number") :
        a \in randomInRange(getRange(config).min, getRange(config).max),
        b \in randomInRange(getRange(config).min, getRange(config).max)}

\* generateDivision once b is drawn.  With b = 0, range.max / b is -Infinity
\* (b = 0 is drawn only when range.max < 0): the quotient is -Infinity, or NaN
\* when Math.random() returns 0, and the dividend 0 * quotient is NaN.
DivisionBy(config, b) ==
    IF b = 0
    THEN {Problem("division", <<0, "/", 0>>, 0, <<0, 0>>, FALSE, kind) :
             kind \in {"-Infinity", "NaN"}}
    ELSE {Problem("division", <<b * quotient, "/", b>>, quotient,
                  <<b * quotient, b>>, FALSE, "number") :
             quotient \in randomInRange(getRange(config).min,
                                        FloorDiv(getRange(config).max, b))}

generateDivision(config) ==
    UNION {DivisionBy(config, b) :
              b \in randomInRange(Max(1, getRange(config).min), getRange(config).max)}

\* answer = Math.round((base * percentage) / 100)
generatePercentage(config) ==
    {Problem("percentage", <<percentage, "% of", base>>,
             Round(base * percentage, 100), <<base, percentage>>, FALSE, "number") :
        base \in randomInRange(10, getRange(config).max),
        percentage \in randomInRange(5, 100)}

\* the signs generateMultiStepProblem draws from
MultiStepSigns == {"+", "-", "*"}

\* a op b
Apply(a, op, b) ==
    CASE op = "+" -> a + b
      [] op = "-" -> a - b
      [] op = "*" -> a * b

\* evaluateExpression on "n1 op1 n2 op2 n3": the value JavaScript gives the
\* expression, the multiplication binding tighter than + and -
evaluateExpression(expression) ==
    LET n1 == expression[1]
        op1 == expression[2]
        n2 == expression[3]
        op2 == expression[4]
        n3 == expression[5]
    IN  IF op2 = "*" /\ op1 # "*"
        THEN Apply(n1, op1, Apply(n2, op2, n3))
        ELSE Apply(Apply(n1, op1, n2), op2, n3)

generateMultiStepProblem(config) ==
    {Problem(config.operation, <<n1, op1, n2, op2, n3>>,
             evaluateExpression(<<n1, op1, n2, op2, n3>>), <<n1, n2, n3>>,
             TRUE, "number") :
        n1 \in randomInRange(getRange(config).min, getRange(config).max),
        n2 \in randomInRange(getRange(config).min, getRange(config).max),
        n3 \in randomInRange(getRange(config).min, getRange(config).max),
        op1 \in MultiStepSigns, op2 \in MultiStepSigns}

\* generateProblem: the problems one call can return; none when the call
\* throws "Unsupported operation"
generateProblem(config) ==
    IF config.multiStep THEN generateMultiStepProblem(config)
    ELSE CASE config.operation = "addition" -> generateAddition(config)
           [] config.operation = "subtraction" -> generateSubtraction(config)
           [] config.operation = "multiplication" -> generateMultiplication(config)
           [] config.operation = "division" -> generateDivision(config)
           [] config.operation = "percentage" -> generatePercentage(config)
           [] OTHER -> {}

\* generateProblemSet(config, count): the lists one call can return
generateProblemSet(config, count) ==
    [1..count -> generateProblem(config)]

(* ---------------------------- achievement engine ---------------------- *)
\* db.ts defaultAchievements; requirement is the object that is stored as
\* JSON.stringify(...) and read back with JSON.parse
defaultAchievements ==
    << [name |-> "First Steps",
        requirement |-> [type |-> "problems_solved", value |-> 1]],
       [name |-> "Perfect Score",
        requirement |-> [type |-> "session_accuracy", value |-> 100]],
       [name |-> "Speed Demon",
        requirement |-> [type |-> "avg_time", value |-> 2, operator |-> "less"]],
       [name |-> "Hot Streak",
        requirement |-> [type |-> "daily_streak", value |-> 7]],
       [name |-> "Century Club",
        requirement |-> [type |-> "problems_solved", value |-> 100]],
       [name |-> "Math Master",
        requirement |-> [type |-> "all_operations_mastered", value |-> 5]],
       [name |-> "Accuracy Ace",
        requirement |-> [type |-> "accuracy_streak", accuracy |-> 95, problems |-> 50]],
       [name |-> "Marathon Runner",
        requirement |-> [type |-> "daily_time", value |-> 3600]],
       [name |-> "Audio Expert",
        requirement |-> [type |-> "mode_problems", mode |-> "audio", value |-> 20]],
       [name |-> "Lightning Fast",
        requirement |-> [type |-> "avg_time", value |-> 1, operator |-> "less"]] >>

\* the operations checkOperationsMastery walks through
MasteryOperations == <<"addition", "subtraction", "multiplication", "division", "percentage">>

\* recentSessions: .limit(10)
RecentLimit == 10

\* isOperationMastered: accuracy > 0.9 && problemsSolved >= 50, in tenths
MasteryAccuracy10 == 9

MasteryProblems == 50

RECURSIVE GCD(_, _)
GCD(a, b) == IF b = 0 THEN a ELSE GCD(b, a % b)

\* the fraction num / den (den > 0) in lowest terms
Fraction(num, den) ==
    LET g == GCD(Abs(num), den)
    IN  [num |-> num \div g, den |-> den \div g]

RECURSIVE SumSeq(_)
SumSeq(s) == IF s = <<>> THEN 0 ELSE Head(s) + SumSeq(Tail(s))

\* sessions.reduce((sum, session) => sum + session.problemsSolved, 0)
TotalProblems(sessions) ==
    SumSeq([k \in 1..Len(sessions) |-> sessions[k].problemsSolved])

\* the sum without the record stored last
checkTotalProblemsBefore(sessions, targetCount) ==
    TotalProblems(SubSeq(sessions, 1, Len(sessions) - 1)) >= targetCount

\* checkTotalProblems(targetCount) on the table db.practiceSessions
checkTotalProblems(sessions, targetCount) == TotalProblems(sessions) >= targetCount

\* the sum of the fractions avgTimePerProblem of the sessions, in lowest terms
RECURSIVE SumAvgTime(_)
SumAvgTime(sessions) ==
    IF sessions = <<>> THEN [num |-> 0, den |-> 1]
    ELSE LET rest == SumAvgTime(Tail(sessions))
             s == Head(sessions)
         IN  Fraction(rest.num * s.avgTimeDen + s.avgTimeNum * rest.den,
                      rest.den * s.avgTimeDen)

\* checkAverageTime(targetTime, operator): the sessions with a truthy
\* avgTimePerProblem are averaged; avgTime = sum.num / (sum.den * length)
checkAverageTime(sessions, targetTime, operator) ==
    IF Len(sessions) = 0 THEN FALSE
    ELSE LET timed == SelectSeq(sessions, LAMBDA s : s.avgTimeNum # 0)
             sum == SumAvgTime(timed)
             den == sum.den * Max(Len(timed), 1)
         IN  CASE operator = "less" -> sum.num < targetTime * den
               [] operator = "greater" -> sum.num > targetTime * den
               [] operator = "equal" -> 10 * Abs(sum.num - targetTime * den) < den
               [] OTHER -> FALSE

\* new Date(session.completedAt) at midnight, as a day number; the date is
\* invalid (its time is NaN) when the record has no completedAt
SessionDate(session) ==
    IF "completedAt" \in DOMAIN session THEN Num(session.completedAt) ELSE NaN

\* db.practiceSessions.orderBy('completedAt').reverse(): latest first
Reverse(s) == [k \in 1..Len(s) |-> s[Len(s) + 1 - k]]

\* the loop of checkDailyStreak from the k-th session on
RECURSIVE StreakWalk(_, _, _, _)
StreakWalk(sessions, k, streak, currentDate) ==
    IF k > Len(sessions) THEN streak
    ELSE LET sessionDate == SessionDate(sessions[k])
         IN  IF ~sessionDate.nan /\ sessionDate.val = currentDate
             THEN StreakWalk(sessions, k + 1, streak + 1, currentDate - 1)
             ELSE IF ~sessionDate.nan /\ sessionDate.val < currentDate
             THEN streak
             ELSE StreakWalk(sessions, k + 1, streak, currentDate)

\* checkDailyStreak(targetStreak), day: the day new Date() falls on
checkDailyStreak(sessions, day, targetStreak) ==
    IF Len(sessions) = 0 THEN FALSE
    ELSE StreakWalk(Reverse(sessions), 1, 0, day) >= targetStreak

\* the accuracy alone, without the floor of 50 problems
isOperationMasteredAnyCount(progress) ==
    10 * progress.correctAnswers > MasteryAccuracy10 * Max(progress.problemsSolved, 1)

\* isOperationMastered(progress)
isOperationMastered(progress) ==
    /\ 10 * progress.correctAnswers > MasteryAccuracy10 * Max(progress.problemsSolved, 1)
    /\ progress.problemsSolved >= MasteryProblems

\* db.userProgress.where('operation').equals(operation).first(): the ids of
\* the records of the operation; the first one is the one with the lowest id
ProgressOf(table, operation) == {id \in 1..Len(table) : table[id].operation = operation}

FirstOf(ids) == CHOOSE id \in ids : \A other \in ids : id <= other

\* masteredCount of checkOperationsMastery
MasteredCount(table) ==
    Cardinality({k \in 1..Len(MasteryOperations) :
        /\ ProgressOf(table, MasteryOperations[k]) # {}
        /\ isOperationMastered(table[FirstOf(ProgressOf(table, MasteryOperations[k]))])})

\* checkOperationsMastery(targetCount) on the table db.userProgress
checkOperationsMastery(table, targetCount) == MasteredCount(table) >= targetCount

\* the loop of checkAccuracyStreak from the k-th recent session on
RECURSIVE AccuracyWalk(_, _, _, _, _, _)
AccuracyWalk(recent, k, totalProblems, totalCorrect, targetAccuracy, targetProblems) ==
    IF k > Len(recent) THEN FALSE
    ELSE LET problems == totalProblems + recent[k].problemsSolved
             correct == totalCorrect + recent[k].correctAnswers
         IN  IF problems >= targetProblems
             THEN correct * 100 >= targetAccuracy * problems
             ELSE AccuracyWalk(recent, k + 1, problems, correct,
                               targetAccuracy, targetProblems)

\* checkAccuracyStreak(targetAccuracy, targetProblems)
checkAccuracyStreak(sessions, targetAccuracy, targetProblems) ==
    LET latest == Reverse(sessions)
        recent == SubSeq(latest, 1, IF Len(latest) < RecentLimit THEN Len(latest)
                                    ELSE RecentLimit)
    IN  AccuracyWalk(recent, 1, 0, 0, targetAccuracy, targetProblems)

\* checkDailyTime(targetTime): where('completedAt').between(today, tomorrow)
checkDailyTime(sessions, day, targetTime) ==
    LET todaySessions ==
            SelectSeq(sessions, LAMBDA s : /\ ~SessionDate(s).nan
                                           /\ SessionDate(s).val = day)
    IN  SumSeq([k \in 1..Len(todaySessions) |-> todaySessions[k].sessionTime])
            >= targetTime

\* checkModeProblems(mode, targetCount)
checkModeProblems(sessions, m, targetCount) ==
    TotalProblems(SelectSeq(sessions, LAMBDA s : s.mode = m)) >= targetCount

\* sessionData: undefined
NoSessionData == [mode |-> "none"]

\* checkRequirement(requirement, sessionData) on the tables sessions
\* (db.practiceSessions) and progress (db.userProgress) on the given day
checkRequirement(requirement, sessionData, sessions, progress, day) ==
    CASE requirement.type = "problems_solved" ->
            checkTotalProblems(sessions, requirement.value)
      [] requirement.type = "session_accuracy" ->
            IF sessionData # NoSessionData
            THEN sessionData.accuracyNum >= requirement.value * sessionData.accuracyDen
            ELSE FALSE
      [] requirement.type = "avg_time" ->
            checkAverageTime(sessions, requirement.value,
                             IF "operator" \in DOMAIN requirement
                             THEN requirement.operator ELSE "less")
      [] requirement.type = "daily_streak" ->
            checkDailyStreak(sessions, day, requirement.value)
      [] requirement.type = "all_operations_mastered" ->
            checkOperationsMastery(progress, requirement.value)
      [] requirement.type = "accuracy_streak" ->
            checkAccuracyStreak(sessions, requirement.accuracy, requirement.problems)
      [] requirement.type = "daily_time" ->
            checkDailyTime(sessions, day, requirement.value)
      [] requirement.type = "mode_problems" ->
            checkModeProblems(sessions, requirement.mode, requirement.value)
      [] OTHER -> FALSE

(* ------------------------------- state -------------------------------- *)
VARIABLES
    mode,           \* hook argument
    sessionLength,  \* hook argument
    timeLimit,      \* hook argument
    config,         \* hook argument (a prop: it can change between renders)
    state,          \* PracticeSessionState
    intervalId,     \* useState: handle of the clock, NoInterval when null
    liveIntervals,  \* the setInterval handles that have not been cleared
    advanceTimers,  \* pending setTimeout(nextProblem) handles, oldest first; each
                    \* is tagged with whether the submitAnswer that armed it
                    \* changed the state ("answered") or not ("noop")
    speechTimers,   \* pending setTimeout(speak next problem) handles
    utterance,      \* what the speech engine is speaking
    mounted,        \* the component using the hook is mounted
    starts,         \* startSession calls so far (numbers the sessions)
    events,         \* calls made on the hook so far
    practiceSessions, \* db.practiceSessions
    userProgress,   \* db.userProgress
    calls,          \* saveResults calls in flight
    quota,          \* saveResults calls the environment still makes
    achievements,   \* db.achievements: its rows and the last id it generated
    userSettings,   \* db.userSettings
    clears,         \* clearAllData calls that wait for their userSettings.add
    today,          \* the calendar day new Date() falls on
    savedDays,      \* last: the last day a session record was stored on, run:
                    \* the number of consecutive days up to it with a record
                    \* (kept for the statement of the properties)
    returned,       \* per catalog entry, how often checkAchievements returned
                    \* it since the last clearAllData (kept for the properties)
    queryData       \* data of the useOperationProgress query that settled last

hookArgs == <<mode, sessionLength, timeLimit, config>>

timerVars == <<intervalId, liveIntervals, advanceTimers, speechTimers, utterance>>

engineVars == <<achievements, userSettings, clears, today, savedDays, returned>>

dbVars == <<practiceSessions, userProgress, calls, quota, engineVars>>

vars == <<hookArgs, state, timerVars, mounted, starts, events, dbVars, queryData>>

\* every call of the user interface on the hook counts as one event
UserEvent == events < MaxEvents /\ events' = events + 1

\* useState initial value of the hook
InitialState(m, limit) ==
    [problems |-> <<>>,
     currentProblemIndex |-> 0,
     currentProblem |-> NoProblem,
     userAnswer |-> "",
     isCorrect |-> "null",
     score |-> 0,
     correctAnswers |-> 0,
     timeElapsed |-> 0,
     timeRemaining |-> IF m = "timed" THEN limit ELSE NullTime,
     isActive |-> FALSE,
     isComplete |-> FALSE,
     feedback |-> "",
     sessionStartTime |-> NullDate,
     problemStartTime |-> NullDate]

\* a row of db.achievements: entry is the position of its name and requirement
\* in defaultAchievements, unlockedAt is NullDate while the row has none
AchievementRow(id, entry) == [id |-> id, entry |-> entry, unlockedAt |-> NullDate]

\* db.achievements.bulkAdd(defaultAchievements) with the ids following lastId
SeedAchievements(lastId) ==
    [rows |-> [k \in 1..Len(defaultAchievements) |-> AchievementRow(lastId + k, k)],
     lastId |-> lastId + Len(defaultAchievements)]

\* the settings row initializeDB adds (voiceSpeed in tenths)
InitialSettings ==
    [dyslexiaMode |-> FALSE, highContrast |-> FALSE, largeText |-> FALSE,
     soundEffects |-> TRUE, voiceFeedback |-> TRUE, voiceSpeed |-> 10,
     darkMode |-> FALSE]

\* useSettings defaultSettings, the row clearAllData adds
defaultSettings ==
    [dyslexiaMode |-> FALSE, highContrast |-> FALSE, largeText |-> FALSE,
     soundEffects |-> TRUE, voiceFeedback |-> TRUE, voiceSpeed |-> 10,
     darkMode |-> FALSE, animations |-> TRUE, notifications |-> TRUE,
     autoSave |-> TRUE]

NeverReturned == [k \in 1..Len(defaultAchievements) |-> 0]

NoSavedDays == [last |-> 0, run |-> 0]

\* useQuery: no data before the query has settled
NoData == [query |-> "none"]

\* the store after initializeDB has run on an empty database
InitEngine ==
    /\ achievements = SeedAchievements(0)
    /\ userSettings = <<InitialSettings>>
    /\ clears = 0
    /\ today = 1
    /\ savedDays = NoSavedDays
    /\ returned = NeverReturned
    /\ queryData = NoData

Init ==
    /\ mode \in Modes
    /\ sessionLength \in 0..MaxSessionLength
    /\ timeLimit \in (IF mode = "timed" THEN 0..MaxTimeLimit ELSE {MaxTimeLimit})
    /\ config = [operation |-> "addition", difficulty |-> "beginner",
                 customRange |-> [min |-> 1, max |-> MaxRange],
                 includeNegatives |-> FALSE, multiStep |-> FALSE]
    /\ state = InitialState(mode, timeLimit)
    /\ intervalId = NoInterval
    /\ liveIntervals = {}
    /\ advanceTimers = <<>>
    /\ speechTimers = 0
    /\ utterance = "none"
    /\ mounted = TRUE
    /\ starts = 0
    /\ events = 0
    /\ practiceSessions = <<>>
    /\ userProgress = <<>>
    /\ calls = <<>>
    /\ quota = MaxRecords
    /\ InitEngine

\* an effect without the cleanup function: a handle that intervalId no longer
\* holds is never cleared
CleanupEffectNoCleanup(newState, id, live) ==
    LET changed == newState.isComplete # state.isComplete \/ id # intervalId
        clear == changed /\ newState.isComplete /\ id # NoInterval
    IN  [intervalId |-> IF clear THEN NoInterval ELSE id,
         liveIntervals |-> IF clear THEN live \ {id} ELSE live]

(* ------------------------ render and cleanup effect ------------------- *)
\* The hook's effect, deps [state.isComplete, intervalId], as it runs in the
\* render that follows a handler: when a dependency changed, the cleanup of
\* the previous effect clears the handle that effect had captured, and the new
\* effect clears the clock of a complete session and sets intervalId to null.
\* newState, id: the state and intervalId the handler has set; live: the
\* handles alive when the handler returns.
CleanupEffect(newState, id, live) ==
    LET changed == newState.isComplete # state.isComplete \/ id # intervalId
        afterCleanup == IF changed THEN live \ {intervalId} ELSE live
        clear == changed /\ newState.isComplete /\ id # NoInterval
    IN  [intervalId |-> IF clear THEN NoInterval ELSE id,
         liveIntervals |-> IF clear THEN afterCleanup \ {id} ELSE afterCleanup]

\* setState(newState) followed by the render and the effect
Commit(newState, id, live) ==
    /\ state' = newState
    /\ intervalId' = CleanupEffect(newState, id, live).intervalId
    /\ liveIntervals' = CleanupEffect(newState, id, live).liveIntervals

\* speechEngine.speak(text): cancels the ongoing utterance and speaks
speak(what) == utterance' = what

(* ------------------------------ startSession -------------------------- *)
\* setInterval returns a handle that is not in use
NewInterval == CHOOSE id \in 1..(MaxStarts + 1) : id \notin liveIntervals \cup {intervalId}

startSession ==
    /\ mounted
    /\ UserEvent
    /\ starts < MaxStarts
    /\ \E problems \in generateProblemSet(config, sessionLength) :
         LET first == IF Len(problems) >= 1 THEN problems[1] ELSE NoProblem
             fresh == [problems |-> problems,
                       currentProblemIndex |-> 0,
                       currentProblem |-> first,
                       userAnswer |-> "",
                       isCorrect |-> "null",
                       score |-> 0,
                       correctAnswers |-> 0,
                       timeElapsed |-> 0,
                       timeRemaining |-> IF mode = "timed" THEN timeLimit ELSE NullTime,
                       isActive |-> TRUE,
                       isComplete |-> FALSE,
                       feedback |-> "",
                       sessionStartTime |-> Now,
                       problemStartTime |-> Now]
         IN  /\ Commit(fresh, NewInterval, liveIntervals \cup {NewInterval})
             /\ IF mode = "audio" /\ first # NoProblem
                THEN speak("problem")
                ELSE UNCHANGED utterance
    /\ starts' = starts + 1
    /\ UNCHANGED <<hookArgs, queryData, advanceTimers, speechTimers, mounted, dbVars>>

(* ------------------------------ clock tick ---------------------------- *)
\* an interval callback that stops counting when the time is up and does not
\* complete the session
TickUpdateNoTimeout(prev) ==
    IF ~prev.isActive THEN prev
    ELSE IF mode = "timed" /\ prev.timeRemaining <= 1 THEN prev
    ELSE [prev EXCEPT !.timeElapsed = prev.timeElapsed + 1,
                      !.timeRemaining = IF mode = "timed"
                                        THEN prev.timeRemaining - 1 ELSE NullTime]

\* the updater of the interval callback
TickUpdate(prev) ==
    IF ~prev.isActive THEN prev
    ELSE LET newTimeElapsed == prev.timeElapsed + 1
             newTimeRemaining ==
                 IF mode = "timed"
                 THEN Max(0, (IF prev.timeRemaining = NullTime THEN 0 ELSE prev.timeRemaining) - 1)
                 ELSE NullTime
         IN  IF mode = "timed" /\ newTimeRemaining = 0
             THEN [prev EXCEPT !.isComplete = TRUE, !.isActive = FALSE]
             ELSE [prev EXCEPT !.timeElapsed = newTimeElapsed,
                               !.timeRemaining = newTimeRemaining]

Tick ==
    /\ \E id \in liveIntervals : TRUE
    /\ mode # "timed" => state.timeElapsed < MaxTicks
    /\ Commit(TickUpdate(state), intervalId, liveIntervals)
    /\ UNCHANGED <<events, hookArgs, queryData, advanceTimers, speechTimers, utterance, mounted, starts, dbVars>>

(* ------------------------- nextProblem / skipProblem ------------------ *)
\* an updater that moves the index without looking at the length of the list
\* and leaves currentProblem as it is
NextUpdateIndexOnly(prev) ==
    [prev EXCEPT !.currentProblemIndex = prev.currentProblemIndex + 1,
                 !.userAnswer = "",
                 !.isCorrect = "null",
                 !.feedback = "",
                 !.problemStartTime = Now]

\* the updater of nextProblem
NextUpdate(prev) ==
    LET nextIndex == prev.currentProblemIndex + 1
    IN  IF nextIndex >= Len(prev.problems)
        THEN [prev EXCEPT !.isComplete = TRUE, !.isActive = FALSE,
                          !.currentProblem = NoProblem]
        ELSE [prev EXCEPT !.currentProblemIndex = nextIndex,
                          !.currentProblem = prev.problems[nextIndex + 1],
                          !.userAnswer = "",
                          !.isCorrect = "null",
                          !.feedback = "",
                          !.problemStartTime = Now]

\* the updater of nextProblem arms the dictation of the next problem
NextArmsDictation(prev) ==
    /\ mode = "audio"
    /\ prev.currentProblemIndex + 1 < Len(prev.problems)

\* nextProblem() on the mounted hook
nextProblem ==
    /\ Commit(NextUpdate(state), intervalId, liveIntervals)
    /\ IF NextArmsDictation(state)
       THEN speechTimers < MaxDictations /\ speechTimers' = speechTimers + 1
       ELSE UNCHANGED speechTimers

skipProblem ==
    /\ mounted
    /\ UserEvent
    /\ nextProblem
    /\ UNCHANGED <<hookArgs, queryData, advanceTimers, utterance, mounted, starts, dbVars>>

(* ------------------------------ submitAnswer -------------------------- *)
\* the guard of the updater of submitAnswer
SubmitAccepted(prev) == ~(prev.currentProblem = NoProblem \/ ~prev.isActive)

\* the updater of submitAnswer
SubmitUpdate(prev, answer) ==
    IF ~SubmitAccepted(prev) THEN prev
    ELSE LET numericAnswer == ParseFloat(answer)
             isCorrect == validateAnswer(numericAnswer, prev.currentProblem.answer)
         IN  [prev EXCEPT !.userAnswer = answer,
                          !.isCorrect = IF isCorrect THEN "true" ELSE "false",
                          !.correctAnswers = prev.correctAnswers + (IF isCorrect THEN 1 ELSE 0),
                          !.score = prev.score + (IF isCorrect THEN PointsPerCorrect ELSE 0),
                          !.feedback = IF isCorrect THEN "Correct!" ELSE "Incorrect"]

submitAnswer ==
    /\ mounted
    /\ UserEvent
    /\ Len(advanceTimers) < MaxTimers
    /\ \E answer \in Inputs :
         /\ Commit(SubmitUpdate(state, answer), intervalId, liveIntervals)
         /\ IF mode = "audio" /\ SubmitAccepted(state)
            THEN speak("result")
            ELSE UNCHANGED utterance
    /\ advanceTimers' = Append(advanceTimers,
                                IF SubmitAccepted(state) THEN "answered" ELSE "noop")
    /\ UNCHANGED <<hookArgs, queryData, speechTimers, mounted, starts, dbVars>>

\* the setTimeout armed by submitAnswer fires.  After the unmount React drops
\* the update; it may still evaluate the updater, which arms the dictation.
AdvanceFire ==
    /\ advanceTimers # <<>>
    /\ advanceTimers' = Tail(advanceTimers)
    /\ IF mounted
       THEN nextProblem
       ELSE /\ UNCHANGED <<state, intervalId, liveIntervals>>
            /\ \/ UNCHANGED speechTimers
               \/ /\ NextArmsDictation(state)
                  /\ speechTimers < MaxDictations
                  /\ speechTimers' = speechTimers + 1
    /\ UNCHANGED <<events, hookArgs, queryData, utterance, mounted, starts, dbVars>>

\* the setTimeout armed by the updater of nextProblem fires
DictationFire ==
    /\ speechTimers > 0
    /\ speechTimers' = speechTimers - 1
    /\ speak("problem")
    /\ UNCHANGED <<events, hookArgs, queryData, state, intervalId, liveIntervals, advanceTimers,
                   mounted, starts, dbVars>>

\* utterance.onend
SpeechEnd ==
    /\ utterance # "none"
    /\ utterance' = "none"
    /\ UNCHANGED <<events, hookArgs, queryData, state, intervalId, liveIntervals, advanceTimers,
                   speechTimers, mounted, starts, dbVars>>

repeatProblem ==
    /\ mounted
    /\ UserEvent
    /\ mode = "audio" /\ state.currentProblem # NoProblem
    /\ speak("problem")
    /\ UNCHANGED <<hookArgs, queryData, state, intervalId, liveIntervals, advanceTimers,
                   speechTimers, mounted, starts, dbVars>>

(* ------------------------------- endSession --------------------------- *)
endSession ==
    /\ mounted
    /\ UserEvent
    /\ Commit([state EXCEPT !.isComplete = TRUE, !.isActive = FALSE],
              intervalId, liveIntervals)
    /\ UNCHANGED <<hookArgs, queryData, advanceTimers, speechTimers, utterance, mounted,
                   starts, dbVars>>

(* ------------------------- props change, unmount ---------------------- *)
\* the parent renders the hook with another config
Rerender ==
    /\ mounted
    /\ UserEvent
    /\ \E c \in Configs : c # config /\ config' = c
    /\ UNCHANGED <<queryData, mode, sessionLength, timeLimit, state, timerVars, mounted,
                   starts, dbVars>>

\* the component is closed: the cleanup of the last effect runs
Unmount ==
    /\ mounted
    /\ UserEvent
    /\ mounted' = FALSE
    /\ liveIntervals' = liveIntervals \ {intervalId}
    /\ UNCHANGED <<hookArgs, queryData, state, intervalId, advanceTimers, speechTimers,
                   utterance, starts, dbVars>>

(* ------------------------------- saveResults -------------------------- *)
\* const results: SessionResults.  accuracy and averageTime are the fractions
\* accuracyNum / accuracyDen and averageTimeNum / averageTimeDen.
Results(st) ==
    [problemsSolved |-> st.currentProblemIndex + (IF st.isCorrect # "null" THEN 1 ELSE 0),
     correctAnswers |-> st.correctAnswers,
     accuracyNum |-> st.correctAnswers * 100,
     accuracyDen |-> Max(st.currentProblemIndex, 1),
     totalTime |-> st.timeElapsed,
     averageTimeNum |-> st.timeElapsed,
     averageTimeDen |-> Max(st.currentProblemIndex, 1),
     score |-> st.score]

\* const sessionData (session, phase: the number of the session the record is
\* of and the phase it was in when saveResults was called, kept for the
\* statement of the properties; the program stores no such fields)
SessionData(results, session, phase) ==
    [mode |-> mode,
     operation |-> config.operation,
     difficulty |-> config.difficulty,
     problemsSolved |-> results.problemsSolved,
     correctAnswers |-> results.correctAnswers,
     sessionTime |-> results.totalTime,
     accuracyNum |-> results.accuracyNum,
     accuracyDen |-> results.accuracyDen,
     avgTimeNum |-> results.averageTimeNum,
     avgTimeDen |-> results.averageTimeDen,
     session |-> session,
     phase |-> phase]

\* the phase of the session machine: Idle, Running or Complete
Phase(st) ==
    IF st.isActive THEN "Running"
    ELSE IF st.isComplete THEN "Complete"
    ELSE "Idle"

\* the id of a record that clearAllData has removed (the table never gives an
\* id a second time)
GoneId == -1

\* existingProgress: undefined
NoProgress == [id |-> 0, problemsSolved |-> 0, correctAnswers |-> 0, totalTime |-> 0]

\* a saveResults call on the state st of session number session, at its first
\* await
SaveCall(st, session) ==
    [pc |-> "add",
     session |-> session,
     phase |-> Phase(st),
     results |-> Results(st),
     sessionData |-> SessionData(Results(st), session, Phase(st)),
     existingProgress |-> NoProgress,
     locked |-> <<>>]

\* saveResults() up to its first await: the guard, results, sessionData, and
\* the request db.practiceSessions.add(sessionData)
saveResults ==
    /\ mounted
    /\ UserEvent
    /\ quota > 0
    /\ quota' = quota - 1
    /\ Len(calls) < MaxCalls
    /\ IF state.sessionStartTime = NullDate
       THEN UNCHANGED calls    \* throw new Error('Session not started')
       ELSE calls' = Append(calls, SaveCall(state, starts))
    /\ UNCHANGED <<hookArgs, queryData, state, timerVars, mounted, starts, practiceSessions,
                   userProgress, engineVars>>

RemoveAt(seq, i) == [j \in 1..(Len(seq) - 1) |-> IF j < i THEN seq[j] ELSE seq[j + 1]]

\* db.userProgress.where('operation').equals(op).and(difficulty).first():
\* the first matching record with its id, NoProgress when there is none
FirstProgress(table, operation, difficulty) ==
    LET matching == {id \in 1..Len(table) :
                        /\ table[id].operation = operation
                        /\ table[id].difficulty = difficulty}
        first == CHOOSE id \in matching : \A other \in matching : id <= other
    IN  IF matching = {} THEN NoProgress
        ELSE [id |-> first,
              problemsSolved |-> table[first].problemsSolved,
              correctAnswers |-> table[first].correctAnswers,
              totalTime |-> table[first].totalTime]

\* await db.practiceSessions.add(sessionData) completes
SaveAdd(i) ==
    /\ calls[i].pc = "add"
    /\ practiceSessions' = Append(practiceSessions, calls[i].sessionData)
    /\ calls' = [calls EXCEPT ![i].pc = "read"]
    /\ savedDays' = [last |-> today,
                     run |-> IF savedDays.last = today THEN savedDays.run
                             ELSE IF savedDays.last = today - 1 /\ savedDays.last # 0
                             THEN savedDays.run + 1
                             ELSE 1]
    /\ UNCHANGED <<events, hookArgs, queryData, state, timerVars, mounted, starts, userProgress, quota,
                   achievements, userSettings, clears, today, returned>>

\* await db.userProgress.where(...).first() completes
SaveRead(i) ==
    /\ calls[i].pc = "read"
    /\ calls' = [calls EXCEPT
                   ![i].pc = "write",
                   ![i].existingProgress =
                       FirstProgress(userProgress, calls[i].sessionData.operation,
                                     calls[i].sessionData.difficulty)]
    /\ UNCHANGED <<events, hookArgs, queryData, state, timerVars, mounted, starts, practiceSessions,
                   userProgress, quota, engineVars>>

\* await db.userProgress.update(...) / add(...) completes
WriteProgress(table, c) ==
    IF c.existingProgress.id = GoneId
    THEN table    \* update of an id that is not in the table
    ELSE IF c.existingProgress.id # 0
    THEN [table EXCEPT ![c.existingProgress.id] =
             [@ EXCEPT !.problemsSolved = c.existingProgress.problemsSolved + c.results.problemsSolved,
                       !.correctAnswers = c.existingProgress.correctAnswers + c.results.correctAnswers,
                       !.totalTime = c.existingProgress.totalTime + c.results.totalTime,
                       !.lastPracticed = Now]]
    ELSE Append(table,
             [operation |-> c.sessionData.operation,
              difficulty |-> c.sessionData.difficulty,
              problemsSolved |-> c.results.problemsSolved,
              correctAnswers |-> c.results.correctAnswers,
              totalTime |-> c.results.totalTime,
              streak |-> 1,
              lastPracticed |-> Now])

SaveWrite(i) ==
    /\ calls[i].pc = "write"
    /\ userProgress' = WriteProgress(userProgress, calls[i])
    /\ calls' = [calls EXCEPT ![i].pc = "check"]
    /\ UNCHANGED <<events, hookArgs, queryData, state, timerVars, mounted, starts, practiceSessions, quota,
                   engineVars>>

\* checkAchievements: db.achievements.where('unlockedAt').equals(undefined)
\* .toArray() completes with the rows that have no unlockedAt
LockedAchievements(table) == SelectSeq(table.rows, LAMBDA a : a.unlockedAt = NullDate)

CheckLocked(i) ==
    /\ calls[i].pc = "check"
    /\ calls' = [calls EXCEPT ![i].pc = "unlock",
                              ![i].locked = LockedAchievements(achievements)]
    /\ UNCHANGED <<events, hookArgs, queryData, state, timerVars, mounted, starts, practiceSessions,
                   userProgress, quota, engineVars>>

\* every row of lockedAchievements, whatever its requirement
NewlyUnlockedAll(lockedAchievements, sessionData, sessions, progress, day) ==
    lockedAchievements

\* newlyUnlocked of checkAchievements(sessionData): the rows of lockedAchievements
\* whose requirement checkRequirement finds satisfied
NewlyUnlocked(lockedAchievements, sessionData, sessions, progress, day) ==
    SelectSeq(lockedAchievements,
              LAMBDA a : checkRequirement(defaultAchievements[a.entry].requirement,
                                          sessionData, sessions, progress, day))

\* an update that writes the whole column: unlockedAt is set on the given rows
\* and removed from the others
UnlockRowsOnly(table, unlocked) ==
    [table EXCEPT !.rows =
        [k \in 1..Len(table.rows) |->
            [table.rows[k] EXCEPT !.unlockedAt =
                IF \E u \in 1..Len(unlocked) : unlocked[u].id = table.rows[k].id
                THEN Now ELSE NullDate]]]

\* db.achievements.update(achievement.id, {unlockedAt}) for each of the rows:
\* an id that is no longer in the table changes nothing
UnlockRows(table, unlocked) ==
    [table EXCEPT !.rows =
        [k \in 1..Len(table.rows) |->
            IF \E u \in 1..Len(unlocked) : unlocked[u].id = table.rows[k].id
            THEN [table.rows[k] EXCEPT !.unlockedAt = Now]
            ELSE table.rows[k]]]

\* the entries of the rows of a list
EntriesOf(rows) == {rows[u].entry : u \in 1..Len(rows)}

\* the loop of checkAchievements runs through lockedAchievements, the call
\* returns newlyUnlocked (and saveResults returns results)
SaveReturn(i) ==
    /\ calls[i].pc = "unlock"
    /\ LET newlyUnlocked == NewlyUnlocked(calls[i].locked, calls[i].sessionData,
                                          practiceSessions, userProgress, today)
       IN  /\ achievements' = UnlockRows(achievements, newlyUnlocked)
           /\ returned' = [k \in DOMAIN returned |->
                              IF k \in EntriesOf(newlyUnlocked)
                              THEN returned[k] + 1 ELSE returned[k]]
    /\ calls' = RemoveAt(calls, i)
    /\ UNCHANGED <<events, hookArgs, queryData, state, timerVars, mounted, starts, practiceSessions,
                   userProgress, quota, userSettings, clears, today, savedDays>>

\* the request a call is waiting for fails (StorageFailure): the promise that
\* saveResults returned rejects
SaveFail(i) ==
    /\ calls' = RemoveAt(calls, i)
    /\ UNCHANGED <<events, hookArgs, queryData, state, timerVars, mounted, starts, practiceSessions,
                   userProgress, quota, engineVars>>

(* ---------------------------- specification --------------------------- *)
Next ==
    \/ startSession
    \/ Tick
    \/ submitAnswer
    \/ AdvanceFire
    \/ skipProblem
    \/ DictationFire
    \/ SpeechEnd
    \/ repeatProblem
    \/ endSession
    \/ Rerender
    \/ Unmount
    \/ saveResults
    \/ \E i \in 1..Len(calls) : SaveAdd(i)
    \/ \E i \in 1..Len(calls) : SaveRead(i)
    \/ \E i \in 1..Len(calls) : SaveWrite(i)
    \/ \E i \in 1..Len(calls) : CheckLocked(i)
    \/ \E i \in 1..Len(calls) : SaveReturn(i)
    \/ \E i \in 1..Len(calls) : SaveFail(i)

Spec == Init /\ [][Next]_vars

TypeOK ==
    /\ state.currentProblemIndex \in 0..MaxSessionLength
    /\ Len(advanceTimers) \in 0..MaxTimers
    /\ speechTimers \in 0..MaxDictations
    /\ Cardinality(liveIntervals) <= 1

(* ------------------- the component, the settings page ----------------- *)
\* PracticeSession: usePracticeSession(mode, config, 20, 600)
ComponentSessionLength == 20

ComponentTimeLimit == 600

\* the configuration the sessions of the component are played with: every
\* problem is 1 + 1
ComponentConfig ==
    [operation |-> "addition", difficulty |-> "beginner",
     customRange |-> [min |-> 1, max |-> 1],
     includeNegatives |-> FALSE, multiStep |-> FALSE]

\* the ways a session of the component is played to its end: all 20 problems
\* answered with one mistake in 30 seconds (nextProblem completes it), or the
\* first problem answered correctly after a second and the session ended
Plays ==
    {[index |-> ComponentSessionLength - 1, currentProblem |-> FALSE,
      correctAnswers |-> ComponentSessionLength - 1, timeElapsed |-> 30],
     [index |-> 0, currentProblem |-> TRUE, correctAnswers |-> 1, timeElapsed |-> 1]}

\* the state of the hook at the end of a session played as play on the
\* problems drawn by startSession
CompleteState(play, problems) ==
    [problems |-> problems,
     currentProblemIndex |-> play.index,
     currentProblem |-> IF play.currentProblem THEN problems[play.index + 1] ELSE NoProblem,
     userAnswer |-> Numeral[problems[play.index + 1].answer],
     isCorrect |-> "true",
     score |-> play.correctAnswers * PointsPerCorrect,
     correctAnswers |-> play.correctAnswers,
     timeElapsed |-> play.timeElapsed,
     timeRemaining |-> IF mode = "timed" THEN timeLimit - play.timeElapsed ELSE NullTime,
     isActive |-> FALSE,
     isComplete |-> TRUE,
     feedback |-> "Correct!",
     sessionStartTime |-> Now,
     problemStartTime |-> Now]

\* A session of the component runs from its automatic start to Complete, and
\* the completion effect calls handleSessionComplete, which calls saveResults
\* on the Complete state.  The component reports a session (onComplete) when
\* saveResults has settled and the page shows the next session after that, so
\* the saves of the component follow one another.
handleSessionComplete ==
    /\ mounted
    /\ quota > 0
    /\ quota' = quota - 1
    /\ calls = <<>>
    /\ \E play \in Plays, problems \in generateProblemSet(config, sessionLength) :
         /\ state' = CompleteState(play, problems)
         /\ calls' = Append(calls, SaveCall(CompleteState(play, problems), starts + 1))
    /\ starts' = starts + 1
    /\ UNCHANGED <<events, hookArgs, queryData, timerVars, mounted, practiceSessions, userProgress,
                   engineVars>>

\* every clearAllData call and every load of the application counts as one
\* event
ResetEvent == events < MaxResets /\ events' = events + 1

\* clearAllData up to its first await: the four tables are cleared
clearAllData ==
    /\ ResetEvent
    /\ practiceSessions' = <<>>
    /\ userProgress' = <<>>
    /\ achievements' = [achievements EXCEPT !.rows = <<>>]
    /\ userSettings' = <<>>
    /\ clears' = clears + 1
    /\ savedDays' = NoSavedDays
    /\ returned' = NeverReturned
    /\ calls' = [i \in 1..Len(calls) |->
                    IF calls[i].existingProgress.id # 0
                    THEN [calls[i] EXCEPT !.existingProgress.id = GoneId]
                    ELSE calls[i]]
    /\ UNCHANGED <<hookArgs, queryData, state, timerVars, mounted, starts, quota, today>>

\* await db.userSettings.add({...defaultSettings}) completes and clearAllData
\* returns true
ClearReturn ==
    /\ clears > 0
    /\ clears' = clears - 1
    /\ userSettings' = Append(userSettings, defaultSettings)
    /\ UNCHANGED <<events, hookArgs, queryData, state, timerVars, mounted, starts, practiceSessions,
                   userProgress, calls, quota, achievements, today, savedDays, returned>>

\* The application is loaded again: the running calls are gone with the page,
\* the hook is constructed anew and Layout calls initializeDB, which seeds the
\* achievements when the table is empty and the settings when there are none.
initializeDB ==
    /\ ResetEvent
    /\ state' = InitialState(mode, timeLimit)
    /\ intervalId' = NoInterval
    /\ liveIntervals' = {}
    /\ advanceTimers' = <<>>
    /\ speechTimers' = 0
    /\ utterance' = "none"
    /\ mounted' = TRUE
    /\ calls' = <<>>
    /\ clears' = 0
    /\ achievements' = IF Len(achievements.rows) = 0
                       THEN SeedAchievements(achievements.lastId)
                       ELSE achievements
    /\ userSettings' = IF Len(userSettings) = 0 THEN <<InitialSettings>> ELSE userSettings
    /\ UNCHANGED <<hookArgs, queryData, starts, practiceSessions, userProgress, quota, today,
                   savedDays, returned>>

\* midnight passes
NextDay ==
    /\ today < MaxDays
    /\ today' = today + 1
    /\ UNCHANGED <<events, hookArgs, queryData, state, timerVars, mounted, starts, practiceSessions,
                   userProgress, calls, quota, achievements, userSettings, clears,
                   savedDays, returned>>

\* the component is mounted on the store that initializeDB has seeded
ComponentInit ==
    /\ mode \in Modes
    /\ sessionLength = ComponentSessionLength
    /\ timeLimit = ComponentTimeLimit
    /\ config = ComponentConfig
    /\ state = InitialState(mode, timeLimit)
    /\ intervalId = NoInterval
    /\ liveIntervals = {}
    /\ advanceTimers = <<>>
    /\ speechTimers = 0
    /\ utterance = "none"
    /\ mounted = TRUE
    /\ starts = 0
    /\ events = 0
    /\ practiceSessions = <<>>
    /\ userProgress = <<>>
    /\ calls = <<>>
    /\ quota = MaxSaves
    /\ achievements = SeedAchievements(0)
    /\ clears = 0
    /\ today = 1
    /\ savedDays = NoSavedDays
    /\ returned = NeverReturned
    /\ queryData = NoData

\* the store and the achievement engine under the sessions of the component;
\* the user may have changed a setting in an earlier run of the application
StoreInit ==
    /\ ComponentInit
    /\ \E darkMode \in BOOLEAN :
         userSettings = <<[InitialSettings EXCEPT !.darkMode = darkMode]>>

\* the steps of a saveResults call whose requests succeed
SaveStep ==
    \/ \E i \in 1..Len(calls) : SaveAdd(i)
    \/ \E i \in 1..Len(calls) : SaveRead(i)
    \/ \E i \in 1..Len(calls) : SaveWrite(i)
    \/ \E i \in 1..Len(calls) : CheckLocked(i)
    \/ \E i \in 1..Len(calls) : SaveReturn(i)

StoreNext ==
    \/ handleSessionComplete
    \/ SaveStep
    \/ clearAllData
    \/ ClearReturn
    \/ initializeDB

StoreSpec == StoreInit /\ [][StoreNext]_vars

\* the sessions of the component over the calendar days
StreakNext ==
    \/ handleSessionComplete
    \/ SaveStep
    \/ NextDay

StreakInit ==
    /\ ComponentInit
    /\ userSettings = <<InitialSettings>>

StreakSpec == StreakInit /\ [][StreakNext]_vars

(* --------------------- checkOperationsMastery on inputs --------------- *)
\* problemsSolved and correctAnswers of the progress records the inputs are
\* made of: on both sides of the floor of 50 problems and of the accuracy 0.9
MasteryInputs == {<<49, 49>>, <<50, 45>>, <<50, 46>>, <<60, 60>>}

\* no record for the operation
NoInput == <<0, 0>>

\* the table db.userProgress with the record input[k] for the k-th operation
ProgressTable(input) ==
    SelectSeq([k \in 1..Len(MasteryOperations) |->
                  [operation |-> MasteryOperations[k],
                   difficulty |-> "beginner",
                   problemsSolved |-> input[k][1],
                   correctAnswers |-> input[k][2],
                   totalTime |-> input[k][1],
                   streak |-> 1,
                   lastPracticed |-> Now]],
              LAMBDA r : r.problemsSolved > 0)

\* a saveResults call of the component has written its session and progress
\* and is about to check the achievements on a progress table drawn from the
\* inputs
MasteryInit ==
    /\ mode \in Modes
    /\ sessionLength = ComponentSessionLength
    /\ timeLimit = ComponentTimeLimit
    /\ config = ComponentConfig
    /\ \E play \in Plays, problems \in generateProblemSet(config, sessionLength) :
         /\ state = CompleteState(play, problems)
         /\ calls = <<[SaveCall(state, 1) EXCEPT !.pc = "check"]>>
         /\ practiceSessions = <<calls[1].sessionData>>
    /\ intervalId = NoInterval
    /\ liveIntervals = {}
    /\ advanceTimers = <<>>
    /\ speechTimers = 0
    /\ utterance = "none"
    /\ mounted = TRUE
    /\ starts = 1
    /\ events = 0
    /\ \E input \in [1..Len(MasteryOperations) -> MasteryInputs \cup {NoInput}] :
         userProgress = ProgressTable(input)
    /\ quota = 0
    /\ achievements = SeedAchievements(0)
    /\ userSettings = <<InitialSettings>>
    /\ clears = 0
    /\ today = 1
    /\ savedDays = [last |-> 1, run |-> 1]
    /\ returned = NeverReturned
    /\ queryData = NoData

MasteryNext ==
    \/ \E i \in 1..Len(calls) : CheckLocked(i)
    \/ \E i \in 1..Len(calls) : SaveReturn(i)

MasterySpec == MasteryInit /\ [][MasteryNext]_vars

(* ------------------------ problem generator on inputs ----------------- *)
\* type Operation
AllOperations ==
    {"addition", "subtraction", "multiplication", "division", "percentage"}

\* type Difficulty
AllDifficulties == {"beginner", "intermediate", "advanced", "expert"}

\* configurations on the range of a difficulty: every operation, single and
\* multi-step, on beginner; division on beginner, intermediate and advanced;
\* percentage on beginner and intermediate
TierConfigs ==
    [operation : AllOperations, difficulty : {"beginner"},
     customRange : {NoRange}, includeNegatives : BOOLEAN, multiStep : BOOLEAN]
    \cup
    [operation : {"division"}, difficulty : AllDifficulties \ {"expert"},
     customRange : {NoRange}, includeNegatives : {FALSE}, multiStep : {FALSE}]
    \cup
    [operation : {"percentage"}, difficulty : {"beginner", "intermediate"},
     customRange : {NoRange}, includeNegatives : {FALSE}, multiStep : {FALSE}]

\* customRange: {min, max} with any two numbers of -GenRangeSpan..GenRangeSpan
CustomRanges ==
    [min : (-GenRangeSpan)..GenRangeSpan, max : (-GenRangeSpan)..GenRangeSpan]

\* configurations with a custom range
CustomConfigs ==
    [operation : AllOperations, difficulty : {"beginner"},
     customRange : CustomRanges, includeNegatives : BOOLEAN, multiStep : {FALSE}]
    \cup
    [operation : AllOperations, difficulty : {"beginner"},
     customRange : CustomRanges, includeNegatives : {FALSE}, multiStep : {TRUE}]

\* configurations whose operation is none of type Operation
UnknownConfigs ==
    [operation : {"exponent"}, difficulty : {"beginner"},
     customRange : {NoRange}, includeNegatives : {FALSE}, multiStep : BOOLEAN]

GenConfigs == TierConfigs \cup CustomConfigs \cup UnknownConfigs

\* a hook instance for one problem on a configuration drawn from GenConfigs
GenInit ==
    /\ mode = "accuracy"
    /\ sessionLength = 1
    /\ timeLimit = ComponentTimeLimit
    /\ config \in GenConfigs
    /\ state = InitialState(mode, timeLimit)
    /\ intervalId = NoInterval
    /\ liveIntervals = {}
    /\ advanceTimers = <<>>
    /\ speechTimers = 0
    /\ utterance = "none"
    /\ mounted = TRUE
    /\ starts = 0
    /\ events = 0
    /\ practiceSessions = <<>>
    /\ userProgress = <<>>
    /\ calls = <<>>
    /\ quota = 0
    /\ achievements = SeedAchievements(0)
    /\ userSettings = <<InitialSettings>>
    /\ clears = 0
    /\ today = 1
    /\ savedDays = NoSavedDays
    /\ returned = NeverReturned
    /\ queryData = NoData

\* the first startSession of the instance: generateProblemSet(config, 1)
GenNext == starts = 0 /\ startSession

GenSpec == GenInit /\ [][GenNext]_vars

(* ----------------------- the hook without saves ----------------------- *)
\* one hook instance whose problems are drawn from 1..HookRange; the user
\* interface never calls saveResults
HookInit ==
    /\ mode \in Modes
    /\ sessionLength \in 0..MaxSessionLength
    /\ timeLimit \in (IF mode = "timed" THEN 0..MaxTimeLimit ELSE {MaxTimeLimit})
    /\ config = [operation |-> "addition", difficulty |-> "beginner",
                 customRange |-> [min |-> 1, max |-> HookRange],
                 includeNegatives |-> FALSE, multiStep |-> FALSE]
    /\ state = InitialState(mode, timeLimit)
    /\ intervalId = NoInterval
    /\ liveIntervals = {}
    /\ advanceTimers = <<>>
    /\ speechTimers = 0
    /\ utterance = "none"
    /\ mounted = TRUE
    /\ starts = 0
    /\ events = 0
    /\ practiceSessions = <<>>
    /\ userProgress = <<>>
    /\ calls = <<>>
    /\ quota = 0
    /\ InitEngine

HookNext ==
    \/ startSession
    \/ Tick
    \/ submitAnswer
    \/ AdvanceFire
    \/ skipProblem
    \/ DictationFire
    \/ SpeechEnd
    \/ repeatProblem
    \/ endSession
    \/ Unmount

HookSpec == HookInit /\ [][HookNext]_vars

\* a session with a time limit; setInterval keeps calling the interval
\* callback while the clock has not been cleared
TimedInit == HookInit /\ mode = "timed"

\* the steps of a session that is not in audio mode
TimedNext ==
    \/ startSession
    \/ Tick
    \/ submitAnswer
    \/ AdvanceFire
    \/ skipProblem
    \/ endSession
    \/ Unmount

TimedSpec == TimedInit /\ [][TimedNext]_vars /\ WF_vars(Tick)

(* ------------------------- useOperationProgress ----------------------- *)
\* the value JavaScript gives (correct / solved) * 100, as kind and, for a
\* number, the fraction num / den in lowest terms: 0 / 0 is NaN
Percent(correct, solved) ==
    IF solved # 0
    THEN [kind |-> "number"] @@ Fraction(100 * correct, solved)
    ELSE [kind |-> IF correct = 0 THEN "NaN" ELSE "Infinity", num |-> 0, den |-> 1]

\* useOperationProgress called without a difficulty
NoDifficulty == "undefined"

\* db.userProgress.where('operation').equals(operation), and
\* .and(p => p.difficulty === difficulty) when a difficulty is given
ProgressRecords(table, operation, difficulty) ==
    SelectSeq(table, LAMBDA p : /\ p.operation = operation
                                /\ difficulty # NoDifficulty => p.difficulty = difficulty)

\* the data the queryFn of useOperationProgress returns
OperationProgress(table, operation, difficulty) ==
    LET progressRecords == ProgressRecords(table, operation, difficulty)
        totalProblems ==
            SumSeq([k \in 1..Len(progressRecords) |-> progressRecords[k].problemsSolved])
        totalCorrect ==
            SumSeq([k \in 1..Len(progressRecords) |-> progressRecords[k].correctAnswers])
    IN  [query |-> "operation-progress",
         records |-> Len(progressRecords),
         totalProblems |-> totalProblems,
         totalCorrect |-> totalCorrect,
         accuracy |-> IF Len(progressRecords) > 0
                      THEN Percent(totalCorrect, totalProblems)
                      ELSE [kind |-> "number", num |-> 0, den |-> 1]]

\* the query of useOperationProgress(operation, difficulty) settles
useOperationProgress ==
    /\ \E operation \in Operations, difficulty \in Difficulties \cup {NoDifficulty} :
         queryData' = OperationProgress(userProgress, operation, difficulty)
    /\ UNCHANGED <<hookArgs, state, timerVars, mounted, starts, events, dbVars>>

\* sessions of the hook without time limit, their saves, and the query
QueryInit == Init /\ mode = "accuracy"

QueryNext ==
    \/ startSession
    \/ submitAnswer
    \/ AdvanceFire
    \/ skipProblem
    \/ endSession
    \/ saveResults
    \/ SaveStep
    \/ useOperationProgress

QuerySpec == QueryInit /\ [][QueryNext]_vars

(* ------------------------------- properties --------------------------- *)
\* the keys of the OperationProgress buckets
Keys == [operation : Operations, difficulty : Difficulties]

\* the key a saveResults call writes to
KeyOf(c) == [operation |-> c.sessionData.operation, difficulty |-> c.sessionData.difficulty]

\* the bucket of a key as a query returns it
Bucket(table, key) == FirstProgress(table, key.operation, key.difficulty)

\* the saveResults calls and the stored records of sessions that were Complete
\* when saveResults was called
CompleteCalls == {i \in 1..Len(calls) : calls[i].phase = "Complete"}

CompleteRecords == {r \in 1..Len(practiceSessions) : practiceSessions[r].phase = "Complete"}

\* C1: for every Complete session the accuracy that saveResults reports and
\* persists is correctAnswers / max(problemsSolved, 1) * 100, problemsSolved
\* being the value saveResults reports (fractions compared by cross
\* multiplication).
C1_AccuracyOverProblemsSolved ==
    /\ \A i \in CompleteCalls :
         calls[i].results.accuracyNum * Max(calls[i].results.problemsSolved, 1)
           = calls[i].results.correctAnswers * 100 * calls[i].results.accuracyDen
    /\ \A r \in CompleteRecords :
         practiceSessions[r].accuracyNum * Max(practiceSessions[r].problemsSolved, 1)
           = practiceSessions[r].correctAnswers * 100 * practiceSessions[r].accuracyDen

\* C2: every PracticeSessionRecord written by saveResults for a Complete
\* session has an accuracy between 0 and 100 inclusive.
C2_AccuracyWithinPercent ==
    \A r \in CompleteRecords :
        /\ 0 <= practiceSessions[r].accuracyNum
        /\ practiceSessions[r].accuracyNum <= 100 * practiceSessions[r].accuracyDen

\* every saveResults call so far was made on a Complete session
AllSavesComplete ==
    /\ CompleteCalls = 1..Len(calls)
    /\ CompleteRecords = 1..Len(practiceSessions)

\* C3: when every session was Complete when it was saved, every
\* OperationProgress bucket of the Progress Store has
\* correctAnswers <= problemsSolved.
C3_CorrectAtMostSolved ==
    AllSavesComplete =>
        \A id \in 1..Len(userProgress) :
            userProgress[id].correctAnswers <= userProgress[id].problemsSolved

\* C4: saveResults invoked while the session is Running signals an error: the
\* call goes no further and persists no session record.
C4_SaveWhileRunningRejected ==
    /\ \A i \in 1..Len(calls) : calls[i].phase # "Running"
    /\ \A r \in 1..Len(practiceSessions) : practiceSessions[r].phase # "Running"

\* C5: submitAnswer called when the session is not Running, or when there is no
\* current problem, leaves the session state unchanged, and the advance it arms
\* changes no state when it fires.
C5_SubmitOutsideRunningIsNoOp ==
    [][/\ (submitAnswer /\ ~SubmitAccepted(state)) => state' = state
       /\ (AdvanceFire /\ mounted /\ Head(advanceTimers) = "noop") => state' = state]_vars

\* C6: every clock tick of a Running timed session (timeLimit >= 1) adds 1 to
\* timeElapsed and subtracts 1 from timeRemaining (clamped at 0), the tick that
\* completes the session included, so that timeElapsed + timeRemaining stays
\* timeLimit and a session ended by the tick has timeRemaining = 0.
C6_EveryTickCounts ==
    [][(Tick /\ mode = "timed" /\ timeLimit >= 1 /\ state.isActive) =>
          /\ state'.timeElapsed = state.timeElapsed + 1
          /\ state'.timeRemaining = Max(0, state.timeRemaining - 1)
          /\ state'.timeElapsed + state'.timeRemaining = timeLimit
          /\ state'.isComplete => state'.timeRemaining = 0]_vars

\* C7: each Complete session produces at most one PracticeSessionRecord,
\* however often saveResults is called on it.
C7_OneRecordPerSession ==
    \A r1, r2 \in CompleteRecords :
        r1 # r2 => practiceSessions[r1].session # practiceSessions[r2].session

\* C8: with every save made on a Complete session, no write to a bucket is
\* interleaved between a saveResults call's read of the bucket and its merged
\* write (the bucket a call is about to write is still the one it read), and no
\* key has two buckets.
C8_NoInterleavedBucketWrite ==
    AllSavesComplete =>
        /\ \A i \in 1..Len(calls) :
             calls[i].pc = "write" =>
                 Bucket(userProgress, KeyOf(calls[i])) = calls[i].existingProgress
        /\ \A id1, id2 \in 1..Len(userProgress) :
             id1 # id2 =>
                 ~(/\ userProgress[id1].operation = userProgress[id2].operation
                   /\ userProgress[id1].difficulty = userProgress[id2].difficulty)

\* C9: the write of a saveResults call (every save being made on a Complete
\* session) leaves the bucket of the session's key with its previous
\* problemsSolved, correctAnswers and totalTime (0 when the bucket did not
\* exist) plus the session's values, and the buckets of the other keys
\* unchanged.
C9_BucketGrowsBySession ==
    [][\A i \in 1..Len(calls) : (SaveWrite(i) /\ AllSavesComplete) =>
          /\ Bucket(userProgress', KeyOf(calls[i])).problemsSolved =
                Bucket(userProgress, KeyOf(calls[i])).problemsSolved
                  + calls[i].results.problemsSolved
          /\ Bucket(userProgress', KeyOf(calls[i])).correctAnswers =
                Bucket(userProgress, KeyOf(calls[i])).correctAnswers
                  + calls[i].results.correctAnswers
          /\ Bucket(userProgress', KeyOf(calls[i])).totalTime =
                Bucket(userProgress, KeyOf(calls[i])).totalTime
                  + calls[i].results.totalTime
          /\ \A key \in Keys \ {KeyOf(calls[i])} :
                Bucket(userProgress', key) = Bucket(userProgress, key)]_vars

\* C10: after the close no timer armed before it fires (no pending advance or
\* dictation timer runs, no clock is left), and the close persists no session
\* record.
C10_CloseCancelsTimers ==
    [][/\ ~mounted => /\ Len(advanceTimers') >= Len(advanceTimers)
                      /\ speechTimers' >= speechTimers
                      /\ liveIntervals' = {}
       /\ Unmount => practiceSessions' = practiceSessions]_vars

\* C11: startSession on a hook with sessionLength = 0 is either rejected (the
\* state stays as it was) or leaves the session Complete at once, and every
\* saveResults call on such a session reports problemsSolved = 0 and
\* accuracy = 0.
C11_EmptySessionCompletesAtOnce ==
    [][/\ (startSession /\ sessionLength = 0) =>
             (state' = state \/ Phase(state') = "Complete")
       /\ \A i \in 1..Len(calls) :
             sessionLength = 0 =>
                 /\ calls[i].results.problemsSolved = 0
                 /\ calls[i].results.accuracyNum = 0]_vars

\* the rows of the table db.achievements that hold the catalog entry
RowsOf(table, entry) == {k \in 1..Len(table.rows) : table.rows[k].entry = entry}

\* the catalog entry is in the table and every row of it is unlocked
Unlocked(table, entry) ==
    /\ RowsOf(table, entry) # {}
    /\ \A k \in RowsOf(table, entry) : table.rows[k].unlockedAt # NullDate

\* the catalog entry is in the table and every row of it is locked
Locked(table, entry) ==
    /\ RowsOf(table, entry) # {}
    /\ \A k \in RowsOf(table, entry) : table.rows[k].unlockedAt = NullDate

\* the position of a name in the catalog
EntryOf(name) ==
    CHOOSE k \in 1..Len(defaultAchievements) : defaultAchievements[k].name = name

\* C12: the step that ends a checkAchievements invocation returns exactly the
\* rows that were locked when the invocation read the table and whose
\* requirement checkRequirement finds satisfied, and sets unlockedAt on each of
\* them that is still in the table; every other row keeps its unlockedAt, so a
\* locked row whose requirement is not satisfied stays locked, and no other
\* entry is returned.
C12_ReturnsLockedAndSatisfied ==
    [][\A i \in 1..Len(calls) : SaveReturn(i) =>
          LET satisfied(a) ==
                  checkRequirement(defaultAchievements[a.entry].requirement,
                                   calls[i].sessionData, practiceSessions,
                                   userProgress, today)
              hit == {k \in 1..Len(calls[i].locked) : satisfied(calls[i].locked[k])}
              hitIds == {calls[i].locked[k].id : k \in hit}
              hitEntries == {calls[i].locked[k].entry : k \in hit}
          IN  /\ \A e \in DOMAIN returned :
                    returned'[e] = returned[e] + (IF e \in hitEntries THEN 1 ELSE 0)
              /\ Len(achievements'.rows) = Len(achievements.rows)
              /\ \A k \in 1..Len(achievements.rows) :
                    achievements'.rows[k] =
                        IF achievements.rows[k].id \in hitIds
                        THEN [achievements.rows[k] EXCEPT !.unlockedAt = Now]
                        ELSE achievements.rows[k]]_vars

\* a check has returned and unlocked First Steps and has left Century Club
\* locked and not returned
C12_Witness ==
    /\ calls = <<>>
    /\ practiceSessions # <<>>
    /\ returned[EntryOf("First Steps")] = 1
    /\ Unlocked(achievements, EntryOf("First Steps"))
    /\ returned[EntryOf("Century Club")] = 0
    /\ Locked(achievements, EntryOf("Century Club"))

\* C13: no step other than clearAllData takes an unlocked row out of the table
\* or clears its unlockedAt: session saves, achievement checks and loads of the
\* application leave every unlocked achievement unlocked.
C13_UnlockIsMonotonic ==
    [][clearAllData \/
       \A k \in 1..Len(achievements.rows) :
           achievements.rows[k].unlockedAt # NullDate =>
               /\ k <= Len(achievements'.rows)
               /\ achievements'.rows[k].id = achievements.rows[k].id
               /\ achievements'.rows[k].unlockedAt # NullDate]_vars

\* First Steps was unlocked by the check of the first save, and two more
\* sessions were saved and checked after it (the third check unlocks others)
C13_Witness ==
    /\ calls = <<>>
    /\ Len(practiceSessions) >= 3
    /\ Unlocked(achievements, EntryOf("First Steps"))
    /\ returned[EntryOf("First Steps")] = 1

\* C14: with every save made on a Complete session, each achievement is in the
\* newly-unlocked lists that the checkAchievements invocations since the last
\* data reset have returned at most once.
C14_ReturnedAtMostOnce ==
    CompleteRecords = 1..Len(practiceSessions) =>
        \A e \in DOMAIN returned : returned[e] <= 1

\* the lifetime sums over the table db.practiceSessions
TotalCorrect(sessions) ==
    SumSeq([k \in 1..Len(sessions) |-> sessions[k].correctAnswers])

\* C15: at the step that ends the achievement check of a saveResults call the
\* record of that call is the last one counted, the achievement
\* problems_solved value = 100 (Century Club) is unlocked when the lifetime sum
\* of problemsSolved has reached 100, and a requirement problems_solved
\* value = 1000 is not satisfied while the sum is below 1000.
C15_CenturyUnlockedBySameSave ==
    [][\A i \in 1..Len(calls) : (SaveReturn(i) /\ practiceSessions # <<>>) =>
          /\ practiceSessions[Len(practiceSessions)].session = calls[i].session
          /\ (/\ TotalProblems(practiceSessions) >= 100
              /\ RowsOf(achievements, EntryOf("Century Club")) # {})
                => Unlocked(achievements', EntryOf("Century Club"))
          /\ TotalProblems(practiceSessions) < 1000 =>
                ~checkRequirement([type |-> "problems_solved", value |-> 1000],
                                  calls[i].sessionData, practiceSessions,
                                  userProgress, today)]_vars

\* five sessions of 20 problems with one mistake each are saved: 100 problems,
\* 95 correct, and the check of the fifth save has returned Century Club
C15_Witness ==
    /\ calls = <<>>
    /\ TotalProblems(practiceSessions) = 100
    /\ TotalCorrect(practiceSessions) = 95
    /\ returned[EntryOf("Century Club")] = 1
    /\ Unlocked(achievements, EntryOf("Century Club"))

\* C16: with one session saved on each of the consecutive calendar days up to
\* today, the check that a save of today runs leaves daily_streak value = 7
\* (Hot Streak) locked while the days are fewer than 7 and unlocks it when they
\* are 7 or more.
C16_StreakUnlocksOnDaySeven ==
    [][\A i \in 1..Len(calls) :
          (SaveReturn(i) /\ savedDays.last = today) =>
              /\ savedDays.run < 7 => Locked(achievements', EntryOf("Hot Streak"))
              /\ savedDays.run >= 7 => Unlocked(achievements', EntryOf("Hot Streak"))]_vars

\* the catalog in the locked state: one locked row for every entry
CatalogLocked(table) ==
    /\ Len(table.rows) = Len(defaultAchievements)
    /\ \A e \in 1..Len(defaultAchievements) : Locked(table, e)

\* the settings that are read (the last row) are the initial ones
SettingsAreDefault(table) ==
    /\ table # <<>>
    /\ \A f \in DOMAIN InitialSettings : table[Len(table)][f] = InitialSettings[f]

\* C18: when clearAllData completes, the session and progress tables are empty,
\* the achievement table holds every catalog entry in the locked state, and the
\* settings hold the default values.
C18_ClearAllReseeds ==
    [][ClearReturn =>
          /\ practiceSessions' = <<>>
          /\ userProgress' = <<>>
          /\ CatalogLocked(achievements')
          /\ SettingsAreDefault(userSettings')]_vars

\* the operations that have a progress record with
\* correctAnswers / problemsSolved > 0.9 and problemsSolved >= 50
MasteredOperations(table) ==
    {k \in 1..Len(MasteryOperations) :
        \E id \in 1..Len(table) :
            /\ table[id].operation = MasteryOperations[k]
            /\ 10 * table[id].correctAnswers > 9 * table[id].problemsSolved
            /\ table[id].problemsSolved >= 50}

Generated == {state.problems[i] : i \in 1..Len(state.problems)}

\* the problems generateDivision returned
GeneratedDivisions ==
    {p \in Generated : p.operation = "division" /\ ~p.isMultiStep}

\* C19: every division problem generated on the range of a difficulty or on a
\* custom range has finite numbers, a divisor >= 1 and dividend = divisor x
\* answer, so the division leaves no remainder.
C19_DivisionIsExact ==
    \A p \in GeneratedDivisions :
        /\ p.answerKind = "number"
        /\ p.factors[2] >= 1
        /\ p.factors[1] = p.factors[2] * p.answer

\* the value of the expression of p under the standard precedence as the
\* fraction num / den; "p% of b" is b * p / 100
ExpressionValue(p) ==
    LET e == p.expression
    IN  IF Len(e) = 5 THEN [num |-> evaluateExpression(e), den |-> 1]
        ELSE CASE e[2] = "/" -> [num |-> e[1], den |-> e[3]]
               [] e[2] = "% of" -> [num |-> e[3] * e[1], den |-> 100]
               [] OTHER -> [num |-> Apply(e[1], e[2], e[3]), den |-> 1]

\* answer = value of the expression
AnswerIsValue(p) ==
    /\ p.answerKind = "number"
    /\ ExpressionValue(p).den # 0
    /\ p.answer * ExpressionValue(p).den = ExpressionValue(p).num

\* answer = value of the expression rounded to the nearest integer, a half
\* going up
AnswerIsRoundedValue(p) ==
    /\ p.answerKind = "number"
    /\ ExpressionValue(p).den > 0
    /\ 2 * p.answer * ExpressionValue(p).den
           <= 2 * ExpressionValue(p).num + ExpressionValue(p).den
    /\ 2 * p.answer * ExpressionValue(p).den
           > 2 * ExpressionValue(p).num - ExpressionValue(p).den

\* C20 as stated: on the range of any difficulty the answer of every generated
\* problem of any operation is finite and equals the value of its expression,
\* b * p / 100 for "p% of b".
C20_AnswerIsExpressionValue ==
    config.customRange = NoRange => \A p \in Generated : AnswerIsValue(p)

\* C20: on the range of any difficulty the answer of every generated problem
\* is finite; the answer of an addition, subtraction, multiplication, division
\* or multi-step problem equals the value of its expression, and the answer of
\* a percentage problem "p% of b" is b * p / 100 rounded to the nearest
\* integer, a half going up.
C20_AnswerIsRoundedExpressionValue ==
    config.customRange = NoRange =>
        \A p \in Generated :
            IF p.operation = "percentage" /\ ~p.isMultiStep
            THEN AnswerIsRoundedValue(p)
            ELSE AnswerIsValue(p)

\* "5% of 10" was generated on the range of a difficulty: its answer is 1 and
\* its value 1/2
C20_Witness ==
    /\ config.customRange = NoRange
    /\ \E p \in Generated :
         /\ p.operation = "percentage"
         /\ ~p.isMultiStep
         /\ p.factors = <<10, 5>>
         /\ p.answer = 1

\* C21: generateProblem on a configuration whose operation is none of the five
\* returns no problem, with multiStep set or not: no generated problem carries
\* an unrecognized operation.
C21_UnknownOperationRejected ==
    \A p \in Generated : p.operation \in AllOperations

\* C22: when every session was Complete when it was saved, the accuracy the
\* operation-progress query returns is the number totalCorrect / totalProblems
\* x 100, and exactly 0 when totalProblems = 0, also when progress records
\* exist whose problemsSolved sum to 0.
C22_QueryAccuracyDefined ==
    (AllSavesComplete /\ queryData.query = "operation-progress") =>
        /\ queryData.accuracy.kind = "number"
        /\ queryData.accuracy.num * queryData.totalProblems
               = 100 * queryData.totalCorrect * queryData.accuracy.den
        /\ queryData.totalProblems = 0 => queryData.accuracy.num = 0

\* C23: the step that ends the achievement check of a save made on a Complete
\* session returns session_accuracy value = 100 (Perfect Score) only if the
\* session has at least one solved problem and none of them wrong or skipped:
\* problemsSolved >= 1 and correctAnswers is not below problemsSolved.
C23_PerfectScoreNeedsAllCorrect ==
    [][\A i \in 1..Len(calls) :
          (/\ SaveReturn(i)
           /\ calls[i].phase = "Complete"
           /\ returned'[EntryOf("Perfect Score")] = returned[EntryOf("Perfect Score")] + 1)
          => /\ calls[i].sessionData.correctAnswers >= calls[i].sessionData.problemsSolved
             /\ calls[i].sessionData.problemsSolved >= 1]_vars

\* C24: each problem adds at most once to correctAnswers: in every state
\* correctAnswers <= currentProblemIndex + 1.
C24_CorrectAtMostOncePerProblem ==
    state.correctAnswers <= state.currentProblemIndex + 1

\* C25: in the first session of the hook, an automatic advance armed by a
\* submitAnswer that fires while the session is Running and its current problem
\* has not been answered (the problem the timer was armed for has been left by
\* a skip or by another advance) does not advance the session: the unanswered
\* problem stays the current one and the session stays Running.
C25_StaleAdvanceDoesNotAdvance ==
    [][(/\ AdvanceFire
        /\ Head(advanceTimers) = "answered"
        /\ starts = 1
        /\ mounted
        /\ state.isActive
        /\ state.currentProblem # NoProblem
        /\ state.isCorrect = "null")
       => /\ state'.currentProblemIndex = state.currentProblemIndex
          /\ state'.currentProblem = state.currentProblem
          /\ state'.isActive]_vars

\* C26: once the session is Complete, no step that is not a call of the user
\* interface on the hook (a clock tick, an advance timer armed earlier, a step
\* of a save) changes currentProblemIndex, currentProblem, isCorrect,
\* correctAnswers, score or timeElapsed.
C26_CompleteIsFrozen ==
    [][(state.isComplete /\ events' = events) =>
          /\ state'.currentProblemIndex = state.currentProblemIndex
          /\ state'.currentProblem = state.currentProblem
          /\ state'.isCorrect = state.isCorrect
          /\ state'.correctAnswers = state.correctAnswers
          /\ state'.score = state.score
          /\ state'.timeElapsed = state.timeElapsed]_vars

\* C27: in every state isActive and isComplete are not both true; while the
\* session is Running with a non-empty problem list, currentProblemIndex is an
\* index of the list and currentProblem is the problem at that index; and only
\* startSession changes the problem list.
C27_SessionStateConsistent ==
    /\ [](/\ ~(state.isActive /\ state.isComplete)
          /\ (state.isActive /\ state.problems # <<>>) =>
                /\ state.currentProblemIndex \in 0..(Len(state.problems) - 1)
                /\ state.currentProblem = state.problems[state.currentProblemIndex + 1])
    /\ [][state'.problems # state.problems => starts' = starts + 1]_vars

\* the session is Running on its second problem after an advance
C27_Witness ==
    /\ state.isActive
    /\ state.currentProblemIndex = 1
    /\ Len(state.problems) = 2
    /\ state.currentProblem = state.problems[2]

\* C28: a session with a time limit that is Running becomes Complete unless
\* the component is closed, whatever the user does, when the clock keeps
\* ticking.
C28_TimedSessionCompletes ==
    (mode = "timed" /\ state.isActive) ~> (state.isComplete \/ ~mounted)

\* a session with time limit 2 has been completed by the clock with no problem
\* answered or skipped
C28_Witness ==
    /\ mode = "timed"
    /\ timeLimit = 2
    /\ mounted
    /\ state.isComplete
    /\ state.timeRemaining = 1
    /\ state.currentProblemIndex = 0
    /\ state.currentProblem # NoProblem
    /\ state.isCorrect = "null"

\* C29: when every session was Complete when it was saved and no stored session
\* has an avgTimePerProblem other than 0, the step that ends an achievement
\* check returns no avg_time achievement with operator less (Speed Demon,
\* Lightning Fast).
C29_EmptyAverageUnlocksNothing ==
    [][\A i \in 1..Len(calls) :
          (/\ SaveReturn(i)
           /\ AllSavesComplete
           /\ \A r \in 1..Len(practiceSessions) : practiceSessions[r].avgTimeNum = 0)
          => /\ returned'[EntryOf("Speed Demon")] = returned[EntryOf("Speed Demon")]
             /\ returned'[EntryOf("Lightning Fast")] = returned[EntryOf("Lightning Fast")]]_vars

====
